---- MODULE Spec2Model ----
(***************************************************************************)
(* A model of the file reconciliation service of kunthawat/sentimentsight  *)
(* (src/aiFileReconciliation.js): AIFileReconciliationService and its      *)
(* reconcileFiles / _generateChecksum / _compareTextFiles /                *)
(* _compareJsonFiles / _log methods, run against a small file system.      *)
(* The asset reconciler (src/aiAssetReconciler.js, reconcileAssets) is     *)
(* modelled in a section of its own, with the specification SpecAssets.    *)
(*                                                                         *)
(* Strings are sequences of fragments (a path is the sequence of its       *)
(* characters; a template literal is the concatenation of its pieces).     *)
(* An optional field of a JavaScript object is a set with at most one      *)
(* element: {} when the field is absent.                                   *)
(***************************************************************************)
EXTENDS Integers, Sequences, FiniteSets, TLC

(***************************************************************************)
(* Bounds of the model.                                                    *)
(***************************************************************************)
\* number of reconcileFiles calls made one after the other in a behaviour
MaxCalls == 1
\* number of times the environment changes a file under a running call
MaxFsChanges == 1

(***************************************************************************)
(* Strings, paths and the functions of 'path' the service uses.            *)
(***************************************************************************)
UpperChars == <<"A","B","C","D","E","F","G","H","I","J","K","L","M",
                "N","O","P","Q","R","S","T","U","V","W","X","Y","Z">>
LowerChars == <<"a","b","c","d","e","f","g","h","i","j","k","l","m",
                "n","o","p","q","r","s","t","u","v","w","x","y","z">>

\* String.prototype.toLowerCase, one character
LowerChar(c) ==
    IF \E i \in DOMAIN UpperChars : UpperChars[i] = c
    THEN LowerChars[CHOOSE i \in DOMAIN UpperChars : UpperChars[i] = c]
    ELSE c

\* String.prototype.toLowerCase
toLowerCase(s) == [i \in DOMAIN s |-> LowerChar(s[i])]

\* the last index of character c in s, 0 when there is none
LastIndexOf(s, c) ==
    IF \E i \in DOMAIN s : s[i] = c
    THEN CHOOSE i \in DOMAIN s : s[i] = c /\ \A j \in DOMAIN s : s[j] = c => j <= i
    ELSE 0

\* path.basename (POSIX): what follows the last '/'
basename(p) == SubSeq(p, LastIndexOf(p, "/") + 1, Len(p))

\* path.extname (POSIX): from the last '.' of the basename to its end; empty
\* when there is no '.', when the only '.' starts the basename, or for '..'
extname(p) ==
    LET b   == basename(p)
        dot == LastIndexOf(b, ".")
    IN  IF dot <= 1 \/ b = <<".", ".">> THEN <<>> ELSE SubSeq(b, dot, Len(b))

\* the paths the calls are made with
PathPool ==
    { <<"a", ".", "t", "x", "t">>,
      <<"B", ".", "T", "X", "T">>,
      <<"c", ".", "j", "s", "o", "n">>,
      <<"d", ".", "b", "i", "n">>,
      <<"e", ".", "b", "i", "n">>,
      <<"f", ".", "j", "s", "o", "n">> }

(***************************************************************************)
(* The file system.  A file is [err, data]: err = "" for a readable file   *)
(* with bytes data, "ENOENT" for a path that does not exist, "EACCES" for  *)
(* one that may not be accessed.                                           *)
(***************************************************************************)
FileContents ==
    { <<"x">>,
      <<"x", "\n">>,
      <<"y">>,
      <<"1">> }

FileStates ==
    { [err |-> e, data |-> <<>>] : e \in {"ENOENT", "EACCES"} }
      \cup { [err |-> "", data |-> d] : d \in FileContents }

\* an 'fs' binding that also offers the stream API of require('fs')
FsWithStreams == {"access", "appendFile", "mkdir", "readFile", "createReadStream"}

\* the members of the object bound to 'fs' (require('fs').promises): the
\* promise API has no createReadStream
FsPromises == {"access", "appendFile", "mkdir", "readFile"}

\* an Error object as the service reads it: name, code, path, message
SystemError(code, syscall, p) ==
    [name |-> "Error", code |-> code, path |-> p,
     message |-> <<code, ": ", syscall, " '">> \o p \o <<"'">>]

NotAFunction(member) ==
    [name |-> "TypeError", code |-> "", path |-> <<>>,
     message |-> <<"fs.", member, " is not a function">>]

Resolved(v) == [ok |-> TRUE, value |-> v, error |-> NotAFunction("")]
Rejected(e) == [ok |-> FALSE, value |-> <<>>, error |-> e]

\* fs.access(p): rejects for a missing or inaccessible path
access(files, p) ==
    IF files[p].err \in {"ENOENT", "EACCES"}
    THEN Rejected(SystemError(files[p].err, "access", p))
    ELSE Resolved(<<>>)

\* crypto.createHash(alg).update(bytes).digest('hex'): a digest is modelled as
\* an injective image of the bytes hashed
Digest(alg, bytes) == <<alg, ":">> \o bytes

checksumAlgorithm == "sha256"

\* _generateChecksum(filePath): the executor calls fs.createReadStream, which
\* throws when 'fs' has no such member, and the promise rejects; with a stream
\* the digest of all the bytes is resolved at 'end', an 'error' event rejects
_generateChecksum(files, p) ==
    IF "createReadStream" \notin FsPromises
    THEN Rejected(NotAFunction("createReadStream"))
    ELSE IF files[p].err # ""
         THEN Rejected(SystemError(files[p].err, "open", p))
         ELSE Resolved(Digest(checksumAlgorithm, files[p].data))

(***************************************************************************)
(* _log(message, level): the entry is built synchronously (the level is    *)
(* upper-cased; the timestamp is not modelled), then the directory is made *)
(* and the entry appended, each an awaited file-system call that may fail. *)
(***************************************************************************)
info  == <<"i", "n", "f", "o">>
warn  == <<"w", "a", "r", "n">>
error == <<"e", "r", "r", "o", "r">>

\* String.prototype.toUpperCase, one character
UpperChar(c) ==
    IF \E i \in DOMAIN LowerChars : LowerChars[i] = c
    THEN UpperChars[CHOOSE i \in DOMAIN LowerChars : LowerChars[i] = c]
    ELSE c

toUpperCase(s) == [i \in DOMAIN s |-> UpperChar(s[i])]

\* `[${level.toUpperCase()}] ${message}\n`
LogEntry(message, level) ==
    <<"[">> \o toUpperCase(level) \o <<"] ">> \o message \o <<"\n">>

\* a call of _log in flight: the entry and the level it was logged at
LogTask(message, level) ==
    [entry |-> LogEntry(message, level), level |-> level]

(***************************************************************************)
(* Number formatting and line splitting.                                   *)
(***************************************************************************)
Digits == <<"0", "1", "2", "3", "4", "5", "6", "7", "8", "9">>

\* `${n}` for a natural number n
RECURSIVE DecStr(_)
DecStr(n) ==
    IF n < 10 THEN <<Digits[n + 1]>>
    ELSE DecStr(n \div 10) \o <<Digits[(n % 10) + 1]>>

\* readline with crlfDelay: Infinity: a line ends at "\n", "\r\n" or "\r";
\* what follows the last line end is a line only when it is not empty
RECURSIVE SplitFrom(_, _, _)
SplitFrom(s, i, cur) ==
    IF i > Len(s) THEN (IF cur = <<>> THEN <<>> ELSE <<cur>>)
    ELSE IF s[i] = "\n" THEN <<cur>> \o SplitFrom(s, i + 1, <<>>)
    ELSE IF s[i] = "\r"
         THEN <<cur>> \o SplitFrom(s, IF i < Len(s) /\ s[i + 1] = "\n"
                                      THEN i + 2 ELSE i + 1, <<>>)
         ELSE SplitFrom(s, i + 1, Append(cur, s[i]))

Lines(bytes) == SplitFrom(bytes, 1, <<>>)

\* the result of the k-th call of next() on the iterator over lines
IterNext(lines, k) ==
    IF k <= Len(lines) THEN [done |-> FALSE, value |-> lines[k]]
    ELSE [done |-> TRUE, value |-> <<>>]

(***************************************************************************)
(* _compareTextFiles.  The loop state: res1/res2 are the current results   *)
(* of the two iterators, k1/k2 the number of next() calls made on each.    *)
(***************************************************************************)
\* the cap on reported differences when not verbose
MaxDiffDetails == 5

RECURSIVE Drain(_, _, _, _, _, _)
\* lines 149-153: the verbose drain of the longer file
Drain(lines, k, cur, n, lineNum, details) ==
    IF cur.done THEN [k |-> k, lineNum |-> lineNum, details |-> details]
    ELSE Drain(lines, k + 1, IterNext(lines, k + 1), n, lineNum + 1,
               Append(details,
                      <<"Line ">> \o DecStr(lineNum) \o <<": Only in File ">>
                        \o DecStr(n.num) \o <<" ('">> \o n.base \o <<"'): \"">>
                        \o cur.value \o <<"\"">>))

RECURSIVE TextLoop(_, _, _, _, _, _)
\* lines 133-172: the comparison loop
TextLoop(l1, l2, p1, p2, verbose, st) ==
    IF st.res1.done /\ st.res2.done THEN st
    ELSE
      LET lineNum == st.lineNum + 1 IN
      IF st.res1.done # st.res2.done
      THEN
        LET ended == IF st.res1.done THEN basename(p1) ELSE basename(p2)
            d1 == Append(st.details,
                         <<"Line count mismatch starting at line ">>
                           \o DecStr(lineNum) \o <<": File '">> \o ended
                           \o <<"' ended prematurely.">>)
        IN
        IF ~verbose
        THEN [st EXCEPT !.lineNum = lineNum, !.isMatch = FALSE, !.details = d1]
        ELSE
          LET longer == IF st.res1.done THEN l2 ELSE l1
              who    == IF st.res1.done
                        THEN [num |-> 2, base |-> basename(p2)]
                        ELSE [num |-> 1, base |-> basename(p1)]
              kl     == IF st.res1.done THEN st.k2 ELSE st.k1
              dr     == Drain(longer, kl, IF st.res1.done THEN st.res2 ELSE st.res1,
                              who, lineNum, d1)
              k1a    == IF st.res1.done THEN st.k1 ELSE dr.k
              k2a    == IF st.res1.done THEN dr.k ELSE st.k2
          IN
          TextLoop(l1, l2, p1, p2, verbose,
                   [res1 |-> IterNext(l1, k1a + 1), res2 |-> IterNext(l2, k2a + 1),
                    k1 |-> k1a + 1, k2 |-> k2a + 1, lineNum |-> dr.lineNum,
                    isMatch |-> FALSE, details |-> dr.details])
      ELSE IF st.res1.value # st.res2.value
      THEN
        LET d1 == Append(st.details,
                         <<"Line ">> \o DecStr(lineNum) \o <<" differs: File 1: \"">>
                           \o st.res1.value \o <<"\" | File 2: \"">>
                           \o st.res2.value \o <<"\"">>)
        IN
        IF ~verbose /\ Len(d1) >= MaxDiffDetails
        THEN [st EXCEPT !.lineNum = lineNum, !.isMatch = FALSE,
                        !.details = Append(d1,
                          <<"Further differences truncated (verbose logging not enabled).">>)]
        ELSE TextLoop(l1, l2, p1, p2, verbose,
                      [res1 |-> IterNext(l1, st.k1 + 1), res2 |-> IterNext(l2, st.k2 + 1),
                       k1 |-> st.k1 + 1, k2 |-> st.k2 + 1, lineNum |-> lineNum,
                       isMatch |-> FALSE, details |-> d1])
      ELSE TextLoop(l1, l2, p1, p2, verbose,
                    [res1 |-> IterNext(l1, st.k1 + 1), res2 |-> IterNext(l2, st.k2 + 1),
                     k1 |-> st.k1 + 1, k2 |-> st.k2 + 1, lineNum |-> lineNum,
                     isMatch |-> st.isMatch, details |-> st.details])

\* what a comparator hands back: the promise's completion (a verdict
\* {isMatch, details} or a rejection) and the log calls it made
Verdict(isMatch, details) == [isMatch |-> isMatch, details |-> details]
NoVerdict == Verdict(FALSE, <<>>)

\* lines 130-131: the first line of each file, then the loop
TextRun(l1, l2, p1, p2, verbose) ==
    TextLoop(l1, l2, p1, p2, verbose,
             [res1 |-> IterNext(l1, 1), res2 |-> IterNext(l2, 1),
              k1 |-> 1, k2 |-> 1, lineNum |-> 0,
              isMatch |-> TRUE, details |-> <<>>])

\* line 184: return { isMatch, details }
TextReturn(st) ==
    [ok |-> TRUE, value |-> Verdict(st.isMatch, st.details),
     error |-> NotAFunction(""), logs |-> <<>>]

\* _compareTextFiles(file1Path, file2Path): the two fs.createReadStream calls
\* of lines 116-123 are outside the try block; a line source that cannot be
\* read makes next() reject inside it
_compareTextFiles(files, p1, p2, verbose) ==
    IF "createReadStream" \notin FsPromises
    THEN [ok |-> FALSE, value |-> NoVerdict,
          error |-> NotAFunction("createReadStream"), logs |-> <<>>]
    ELSE IF files[p1].err # "" \/ files[p2].err # ""
    THEN
      LET bad == IF files[p1].err # "" THEN p1 ELSE p2
          e   == SystemError(files[bad].err, "open", bad)
      IN [ok |-> TRUE,
          value |-> Verdict(FALSE, << <<"Error reading files for comparison: ">>
                                        \o e.message >>),
          error |-> e,
          logs |-> << LogTask(<<"Error during text file comparison: ">> \o e.message,
                              error) >>]
    ELSE TextReturn(TextRun(Lines(files[p1].data), Lines(files[p2].data),
                            p1, p2, verbose))

(***************************************************************************)
(* JSON.parse and util.isDeepStrictEqual.  A parsed value is [t, v]:       *)
(* t = "number" (v its digits), "string" (v its characters), "literal"     *)
(* (true, false, null), "array" (v the sequence of elements) or "object"   *)
(* (v the sequence of members [k, v] in insertion order, keys unique).     *)
(* The documents of the model use unsigned integers and strings without    *)
(* escapes; any other text is a syntax error here.                         *)
(***************************************************************************)
JsonWs == {" ", "\n", "\r", "\t"}
JsonDigits == {"0", "1", "2", "3", "4", "5", "6", "7", "8", "9"}

JVal(t, v) == [t |-> t, v |-> v]
ParseOk(val, next) == [ok |-> TRUE, val |-> val, next |-> next]
ParseFail == [ok |-> FALSE, val |-> JVal("literal", <<"null">>), next |-> 0]

RECURSIVE SkipWs(_, _)
SkipWs(s, i) == IF i <= Len(s) /\ s[i] \in JsonWs THEN SkipWs(s, i + 1) ELSE i

RECURSIVE ScanDigits(_, _)
\* the index after the run of digits that starts at i
ScanDigits(s, i) ==
    IF i <= Len(s) /\ s[i] \in JsonDigits THEN ScanDigits(s, i + 1) ELSE i

RECURSIVE ScanString(_, _)
\* the index of the quote that closes the string whose text starts at i, or 0
ScanString(s, i) ==
    IF i > Len(s) \/ s[i] \in {"\\", "\n", "\r", "\t"} THEN 0
    ELSE IF s[i] = "\"" THEN i
    ELSE ScanString(s, i + 1)

StartsWith(s, i, w) == i + Len(w) - 1 <= Len(s) /\ SubSeq(s, i, i + Len(w) - 1) = w

\* obj[key] = val on an object under construction: a repeated key keeps its
\* place and takes the later value
PutMember(members, key, val) ==
    IF \E n \in DOMAIN members : members[n].k = key
    THEN [n \in DOMAIN members |->
            IF members[n].k = key THEN [k |-> key, v |-> val] ELSE members[n]]
    ELSE Append(members, [k |-> key, v |-> val])

RECURSIVE ParseValue(_, _), ParseElements(_, _, _), ParseMembers(_, _, _)
ParseValue(s, i0) ==
    LET i == SkipWs(s, i0) IN
    IF i > Len(s) THEN ParseFail
    ELSE IF s[i] = "["
         THEN LET j == SkipWs(s, i + 1) IN
              IF j <= Len(s) /\ s[j] = "]"
              THEN ParseOk(JVal("array", <<>>), j + 1)
              ELSE ParseElements(s, i + 1, <<>>)
    ELSE IF s[i] = "{"
         THEN LET j == SkipWs(s, i + 1) IN
              IF j <= Len(s) /\ s[j] = "}"
              THEN ParseOk(JVal("object", <<>>), j + 1)
              ELSE ParseMembers(s, i + 1, <<>>)
    ELSE IF s[i] = "\""
         THEN LET e == ScanString(s, i + 1) IN
              IF e = 0 THEN ParseFail
              ELSE ParseOk(JVal("string", SubSeq(s, i + 1, e - 1)), e + 1)
    ELSE IF s[i] \in JsonDigits
         THEN LET e == ScanDigits(s, i) IN
              IF s[i] = "0" /\ e > i + 1 THEN ParseFail
              ELSE ParseOk(JVal("number", SubSeq(s, i, e - 1)), e)
    ELSE IF StartsWith(s, i, <<"t", "r", "u", "e">>)
         THEN ParseOk(JVal("literal", <<"true">>), i + 4)
    ELSE IF StartsWith(s, i, <<"f", "a", "l", "s", "e">>)
         THEN ParseOk(JVal("literal", <<"false">>), i + 5)
    ELSE IF StartsWith(s, i, <<"n", "u", "l", "l">>)
         THEN ParseOk(JVal("literal", <<"null">>), i + 4)
    ELSE ParseFail

ParseElements(s, i, acc) ==
    LET r == ParseValue(s, i) IN
    IF ~r.ok THEN ParseFail
    ELSE LET j == SkipWs(s, r.next) IN
         IF j > Len(s) THEN ParseFail
         ELSE IF s[j] = "," THEN ParseElements(s, j + 1, Append(acc, r.val))
         ELSE IF s[j] = "]" THEN ParseOk(JVal("array", Append(acc, r.val)), j + 1)
         ELSE ParseFail

ParseMembers(s, i, acc) ==
    LET q == SkipWs(s, i) IN
    IF q > Len(s) \/ s[q] # "\"" THEN ParseFail
    ELSE LET e == ScanString(s, q + 1) IN
         IF e = 0 THEN ParseFail
         ELSE LET c == SkipWs(s, e + 1) IN
              IF c > Len(s) \/ s[c] # ":" THEN ParseFail
              ELSE LET r == ParseValue(s, c + 1) IN
                   IF ~r.ok THEN ParseFail
                   ELSE LET j   == SkipWs(s, r.next)
                            mem == PutMember(acc, SubSeq(s, q + 1, e - 1), r.val)
                        IN  IF j > Len(s) THEN ParseFail
                            ELSE IF s[j] = "," THEN ParseMembers(s, j + 1, mem)
                            ELSE IF s[j] = "}" THEN ParseOk(JVal("object", mem), j + 1)
                            ELSE ParseFail

\* JSON.parse(text): one value, white space around it, nothing else
JsonParse(text) ==
    LET r == ParseValue(text, 1) IN
    IF r.ok /\ SkipWs(text, r.next) > Len(text) THEN r ELSE ParseFail

Keys(members) == { members[n].k : n \in DOMAIN members }
ValueOf(members, key) == members[CHOOSE n \in DOMAIN members : members[n].k = key].v

RECURSIVE isDeepEqualOrdered(_, _)
\* a deep comparison that takes the members of an object in insertion order
isDeepEqualOrdered(a, b) ==
    IF a.t # b.t THEN FALSE
    ELSE IF a.t = "array"
         THEN /\ Len(a.v) = Len(b.v)
              /\ \A n \in DOMAIN a.v : isDeepEqualOrdered(a.v[n], b.v[n])
    ELSE IF a.t = "object"
         THEN /\ Len(a.v) = Len(b.v)
              /\ \A n \in DOMAIN a.v :
                    /\ a.v[n].k = b.v[n].k
                    /\ isDeepEqualOrdered(a.v[n].v, b.v[n].v)
    ELSE a.v = b.v

RECURSIVE isDeepStrictEqual(_, _)
\* util.isDeepStrictEqual on parsed JSON values
isDeepStrictEqual(a, b) ==
    IF a.t # b.t THEN FALSE
    ELSE IF a.t = "array"
         THEN /\ Len(a.v) = Len(b.v)
              /\ \A n \in DOMAIN a.v : isDeepStrictEqual(a.v[n], b.v[n])
    ELSE IF a.t = "object"
         THEN /\ Keys(a.v) = Keys(b.v)
              /\ \A key \in Keys(a.v) :
                    isDeepStrictEqual(ValueOf(a.v, key), ValueOf(b.v, key))
    ELSE a.v = b.v

\* lines 229-233: the catch block of _compareJsonFiles
JsonCaught(msg) ==
    [ok |-> TRUE,
     value |-> Verdict(FALSE, << <<"Error parsing JSON: ">> \o msg >>),
     error |-> NotAFunction(""),
     logs |-> << LogTask(<<"Error parsing JSON files: ">> \o msg, error) >>]

\* lines 212-227: the verdict on two parsed documents
JsonVerdict(isMatch) ==
    [ok |-> TRUE,
     value |-> Verdict(isMatch,
                 IF isMatch THEN <<>>
                 ELSE << <<"JSON content differs (deep strict comparison, order of keys in objects does not matter).">> >>),
     error |-> NotAFunction(""), logs |-> <<>>]

\* lines 209-227: JSON.parse of both texts, then the comparison
JsonCompare(obj1, obj2) ==
    IF ~obj1.ok \/ ~obj2.ok
    THEN JsonCaught(<<"Unexpected token in JSON">>)
    ELSE JsonVerdict(isDeepStrictEqual(obj1.val, obj2.val))

\* _compareJsonFiles(file1Path, file2Path): both files are read whole and
\* parsed; a failed read or parse is caught and becomes a verdict.  first is
\* the file whose rejection Promise.all reports when both reads fail.
_compareJsonFiles(files, p1, p2, verbose, first) ==
    LET other == IF first = p1 THEN p2 ELSE p1 IN
    IF files[first].err # ""
    THEN JsonCaught(SystemError(files[first].err, "open", first).message)
    ELSE IF files[other].err # ""
    THEN JsonCaught(SystemError(files[other].err, "open", other).message)
    ELSE JsonCompare(JsonParse(files[p1].data), JsonParse(files[p2].data))

(***************************************************************************)
(* reconcileFiles.  An outcome is the object returned; a stage of the      *)
(* method hands back the settled promise (or "pending" when the method     *)
(* goes on), the _log calls it made, and what it invoked.                  *)
(***************************************************************************)
Outcome(status, message, checksum1, checksum2, details, err) ==
    [status |-> status, message |-> message, checksum1 |-> checksum1,
     checksum2 |-> checksum2, details |-> details, error |-> err]

Statuses ==
    {"MATCH", "MISMATCH_EXTENSIONS", "MISMATCH_CONTENT", "UNSUPPORTED_TYPE",
     "FILE_NOT_FOUND", "ERROR"}

Pending     == [kind |-> "pending", outcome |-> Outcome("", <<>>, {}, {}, {}, {})]
Returned(o) == [kind |-> "returned", outcome |-> o]
Thrown(e)   == [kind |-> "thrown", outcome |-> Outcome("", e.message, {}, {}, {}, {})]

\* a catch block that lets every fault but ENOENT escape
CatchBlockRethrow(e) ==
    IF e.code = "ENOENT"
    THEN LET message == <<"One or both files not found: ">> \o e.path \o <<".">> IN
         [result |-> Returned(Outcome("FILE_NOT_FOUND", message, {}, {}, {}, {e.message})),
          logs |-> << LogTask(message, error) >>]
    ELSE [result |-> Thrown(e), logs |-> <<>>]

\* a catch block that reports the fault in a details list
CatchBlockDetails(e) ==
    IF e.code = "ENOENT"
    THEN LET message == <<"One or both files not found: ">> \o e.path \o <<".">> IN
         [result |-> Returned(Outcome("FILE_NOT_FOUND", message, {}, {}, {}, {e.message})),
          logs |-> << LogTask(message, error) >>]
    ELSE [result |-> Returned(Outcome("ERROR",
                         <<"An unexpected error occurred: ">> \o e.message,
                         {}, {}, { <<e.message>> }, {e.message})),
          logs |-> << LogTask(<<"Error during file reconciliation: ">> \o e.message,
                              error) >>]

\* a catch block that takes every fault that carries a code for a missing file
CatchBlockAnyCode(e) ==
    IF e.code # ""
    THEN LET message == <<"One or both files not found: ">> \o e.path \o <<".">> IN
         [result |-> Returned(Outcome("FILE_NOT_FOUND", message, {}, {}, {}, {e.message})),
          logs |-> << LogTask(message, error) >>]
    ELSE [result |-> Returned(Outcome("ERROR",
                         <<"An unexpected error occurred: ">> \o e.message,
                         {}, {}, {}, {e.message})),
          logs |-> << LogTask(<<"Error during file reconciliation: ">> \o e.message,
                              error) >>]

\* a catch block that returns the ERROR outcome without logging it
CatchBlockQuiet(e) ==
    IF e.code = "ENOENT"
    THEN LET message == <<"One or both files not found: ">> \o e.path \o <<".">> IN
         [result |-> Returned(Outcome("FILE_NOT_FOUND", message, {}, {}, {}, {e.message})),
          logs |-> << LogTask(message, error) >>]
    ELSE [result |-> Returned(Outcome("ERROR",
                         <<"An unexpected error occurred: ">> \o e.message,
                         {}, {}, {}, {e.message})),
          logs |-> <<>>]

\* lines 76-84: the catch block of reconcileFiles
CatchBlock(e) ==
    IF e.code = "ENOENT"
    THEN LET message == <<"One or both files not found: ">> \o e.path \o <<".">> IN
         [result |-> Returned(Outcome("FILE_NOT_FOUND", message, {}, {}, {}, {e.message})),
          logs |-> << LogTask(message, error) >>]
    ELSE [result |-> Returned(Outcome("ERROR",
                         <<"An unexpected error occurred: ">> \o e.message,
                         {}, {}, {}, {e.message})),
          logs |-> << LogTask(<<"Error during file reconciliation: ">> \o e.message,
                              error) >>]

\* lines 31-34: file1Ext !== file2Ext
ExtensionsDiffer(p1, p2) == toLowerCase(extname(p1)) # toLowerCase(extname(p2))

\* an access check that is not followed by the extension gate
AccessStageNoGate(files, p1, p2, first) ==
    LET a1 == access(files, first)
        a2 == access(files, IF first = p1 THEN p2 ELSE p1)
    IN
    IF ~a1.ok \/ ~a2.ok
    THEN LET e == IF ~a1.ok THEN a1.error ELSE a2.error
             c == CatchBlock(e)
         IN [result |-> c.result, logs |-> c.logs, accessError |-> {e}]
    ELSE [result |-> Pending, logs |-> <<>>, accessError |-> {}]

\* lines 29-38: the access check and the extension gate.  first is the path
\* whose rejection Promise.all reports when both access calls fail.
AccessStage(files, p1, p2, first) ==
    LET a1 == access(files, first)
        a2 == access(files, IF first = p1 THEN p2 ELSE p1)
    IN
    IF ~a1.ok \/ ~a2.ok
    THEN LET e == IF ~a1.ok THEN a1.error ELSE a2.error
             c == CatchBlock(e)
         IN [result |-> c.result, logs |-> c.logs, accessError |-> {e}]
    ELSE IF ExtensionsDiffer(p1, p2)
    THEN LET message == <<"File extensions do not match: '">>
                          \o toLowerCase(extname(p1)) \o <<"' vs '">>
                          \o toLowerCase(extname(p2))
                          \o <<"'. Cannot perform content comparison.">>
         IN [result |-> Returned(Outcome("MISMATCH_EXTENSIONS", message, {}, {}, {}, {})),
             logs |-> << LogTask(message, warn) >>, accessError |-> {}]
    ELSE [result |-> Pending, logs |-> <<>>, accessError |-> {}]

\* lines 66-74 (and 76-84 when the comparator rejected): the comparator's
\* completion r mapped to an outcome
MapVerdict(r, ran, p1, p2, checksum1, checksum2) ==
    IF ~r.ok
    THEN [result |-> CatchBlock(r.error).result,
          logs |-> r.logs \o CatchBlock(r.error).logs, comparators |-> ran]
    ELSE IF r.value.isMatch
    THEN [result |-> Returned(Outcome("MATCH",
                        <<"Content matches for '">> \o p1 \o <<"' and '">> \o p2
                          \o <<"'.">>,
                        {checksum1}, {checksum2}, {r.value.details}, {})),
          logs |-> r.logs \o << LogTask(<<"Content matches for '">> \o p1
                                          \o <<"' and '">> \o p2 \o <<"'.">>, info) >>,
          comparators |-> ran]
    ELSE [result |-> Returned(Outcome("MISMATCH_CONTENT",
                        <<"Content mismatch detected between '">> \o p1
                          \o <<"' and '">> \o p2 \o <<"'.">>,
                        {checksum1}, {checksum2}, {r.value.details}, {})),
          logs |-> r.logs \o << LogTask(<<"Content mismatch detected between '">> \o p1
                                          \o <<"' and '">> \o p2 \o <<"'.">>, error) >>,
          comparators |-> ran]

\* lines 60-63: the default case of the switch
Unsupported(ext, checksum1, checksum2) ==
    [result |-> Returned(Outcome("UNSUPPORTED_TYPE",
                   <<"Unsupported file type for content comparison: '">> \o ext
                     \o <<"'. Only checksums were compared.">>,
                   {checksum1}, {checksum2}, {}, {})),
     logs |-> << LogTask(<<"Unsupported file type for content comparison: '">> \o ext
                           \o <<"'. Only checksums were compared.">>, warn) >>,
     comparators |-> <<>>]

\* lines 51-74: the comparator chosen by the extension, and its verdict mapped
\* to an outcome
CompareStage(files, p1, p2, verbose, first, checksum1, checksum2) ==
    IF toLowerCase(extname(p1)) \in { <<".", "t", "x", "t">>, <<".", "c", "s", "v">> }
    THEN MapVerdict(_compareTextFiles(files, p1, p2, verbose),
                    <<"_compareTextFiles">>, p1, p2, checksum1, checksum2)
    ELSE IF toLowerCase(extname(p1)) = <<".", "j", "s", "o", "n">>
    THEN MapVerdict(_compareJsonFiles(files, p1, p2, verbose, first),
                    <<"_compareJsonFiles">>, p1, p2, checksum1, checksum2)
    ELSE Unsupported(toLowerCase(extname(p1)), checksum1, checksum2)

\* line 49: the 'checksums differ' log line goes before what the comparison logs
AfterDiffer(c, checksum1, checksum2) ==
    [result |-> c.result,
     logs |-> << LogTask(<<"Checksums differ. Performing content comparison... (Checksum1: ">>
                           \o checksum1 \o <<", Checksum2: ">> \o checksum2 \o <<")">>,
                         info) >> \o c.logs,
     checksumCalls |-> 2, digests |-> <<checksum1, checksum2>>,
     comparators |-> c.comparators]

\* a checksum stage that reports the digest of the first file alone
ChecksumStageFirstOnly(files, p1, p2, verbose, first) ==
    LET c == CatchBlock(NotAFunction("createReadStream")) IN
    [result |-> Returned([c.result.outcome EXCEPT
                            !.checksum1 = {Digest(checksumAlgorithm, files[p1].data)}]),
     logs |-> c.logs, checksumCalls |-> 1, digests |-> <<>>, comparators |-> <<>>]

\* lines 40-74: both checksums, the fast path, then the comparison
ChecksumStage(files, p1, p2, verbose, first) ==
    LET r1 == _generateChecksum(files, p1) IN
    IF ~r1.ok
    THEN LET c == CatchBlock(r1.error) IN
         [result |-> c.result, logs |-> c.logs, checksumCalls |-> 1,
          digests |-> <<>>, comparators |-> <<>>]
    ELSE
      LET r2 == _generateChecksum(files, p2) IN
      IF ~r2.ok
      THEN LET c == CatchBlock(r2.error) IN
           [result |-> c.result, logs |-> c.logs, checksumCalls |-> 2,
            digests |-> <<r1.value>>, comparators |-> <<>>]
      ELSE IF r1.value = r2.value
      THEN LET message == <<"Checksums match for '">> \o p1 \o <<"' and '">> \o p2
                            \o <<"'. Files are identical.">>
           IN [result |-> Returned(Outcome("MATCH", message, {r1.value}, {r2.value},
                                           {}, {})),
               logs |-> << LogTask(message, info) >>, checksumCalls |-> 2,
               digests |-> <<r1.value, r2.value>>, comparators |-> <<>>]
      ELSE AfterDiffer(CompareStage(files, p1, p2, verbose, first, r1.value, r2.value),
                       r1.value, r2.value)

\* number of reconcileFiles calls in progress at the same time
MaxConcurrent == 2

\* a call that was not made yet: where it is suspended, its arguments, its
\* promise, and whether another call was in progress during it
NotStarted ==
    [pc |-> "idle", args |-> <<>>, result |-> Pending, overlapped |-> FALSE]

\* the line sources (1 for rl1, 2 for rl2) a comparator created and closed
NoReaders == [opened |-> {}, closed |-> {}]

\* no comparator was called directly
NotCalled ==
    [of |-> "", args |-> <<>>, ok |-> FALSE, value |-> NoVerdict,
     error |-> NotAFunction(""), pulls |-> <<0, 0>>, readers |-> NoReaders]

(***************************************************************************)
(* The AI asset reconciler (src/aiAssetReconciler.js): reconcileAssets,    *)
(* _validateApiKey and _checkServiceEndpointHealth, run against a          *)
(* configuration, an environment and a network.  An object is the sequence *)
(* of its members in insertion order, as in the JSON values above.         *)
(***************************************************************************)
\* number of services in config/aiServiceConfigs.json
MaxServices == 2

\* the value of an optional field that is present
The(v) == CHOOSE x \in v : TRUE

\* the truthiness of an optional string: undefined and "" are falsy
Truthy(v) == v # {} /\ The(v) # <<>>

WhiteSpace == {" ", "\t", "\n", "\r"}

RECURSIVE trimStart(_)
trimStart(s) ==
    IF s # <<>> /\ Head(s) \in WhiteSpace THEN trimStart(Tail(s)) ELSE s

RECURSIVE trimEnd(_)
trimEnd(s) ==
    IF s # <<>> /\ s[Len(s)] \in WhiteSpace
    THEN trimEnd(SubSeq(s, 1, Len(s) - 1))
    ELSE s

\* String.prototype.trim
trim(s) == trimEnd(trimStart(s))

\* String.prototype.startsWith
startsWith(s, w) == StartsWith(s, 1, w)

\* new RegExp(pattern) throws a SyntaxError for a pattern that is not a
\* regular expression; of the patterns used here, one with a group that is
\* not closed
RegExpCompiles(pattern) ==
    Cardinality({ i \in DOMAIN pattern : pattern[i] = "(" })
      = Cardinality({ i \in DOMAIN pattern : pattern[i] = ")" })

\* RegExp.prototype.test for the patterns used here: literal text, anchored
\* at the start of the string by a leading "^"
RegExpTest(pattern, s) ==
    IF pattern # <<>> /\ Head(pattern) = "^"
    THEN startsWith(s, Tail(pattern))
    ELSE \E i \in 1..(Len(s) + 1) : StartsWith(s, i, pattern)

InvalidRegExp(pattern) ==
    [name |-> "SyntaxError", code |-> "", path |-> <<>>,
     message |-> <<"Invalid regular expression: /">> \o pattern \o <<"/">>]

\* a call of a method of the winston logger
Logged(level, message) == [level |-> level, message |-> message]

debug == <<"d", "e", "b", "u", "g">>

\* the values reconcileAssets stores in reconciliationResults
JsBoolean(b) == JVal("literal", IF b THEN <<"true">> ELSE <<"false">>)
NotConfigured == JVal("string", <<"N/A (not configured)">>)
SameAsPrimary == JVal("string", <<"Same as Primary">>)
Missing == JVal("string", <<"Missing">>)

\* lines 73-87: _validateApiKey(envVarName, formatRegex); formatRegex is {}
\* for null.  A value of process.env is a string when it is set.
_validateApiKey(e, envVarName, formatRegex) ==
    LET apiKey == e[envVarName] IN
    IF ~Truthy(apiKey) \/ trim(The(apiKey)) = <<>>
    THEN [value |-> FALSE,
          logs |-> << Logged(warn, <<"Missing or invalid API key for '">>
                                       \o envVarName \o <<"'.">>) >>]
    ELSE IF formatRegex # {} /\ ~RegExpTest(The(formatRegex), The(apiKey))
    THEN [value |-> FALSE,
          logs |-> << Logged(warn, <<"API key for '">> \o envVarName
                                       \o <<"' does not match expected format.">>) >>]
    ELSE [value |-> TRUE,
          logs |-> << Logged(debug, <<"API key for '">> \o envVarName
                                        \o <<"' is present and valid.">>) >>]

\* lines 97-100: the endpoints _checkServiceEndpointHealth refuses without a
\* request (every endpoint of the model is a string)
InvalidEndpoint(endpoint) == endpoint = <<>> \/ ~startsWith(endpoint, <<"http">>)

\* the ways the request of line 106 ends: a 2xx response, another response,
\* the abort of line 104, a network fault.  The body of a response that is
\* not 2xx is read for the log only (lines 117-122); here it can be read.
FetchOutcomes == {"ok", "notOk", "AbortError", "FetchError"}

\* lines 113-135: what _checkServiceEndpointHealth returns and logs once the
\* request has ended
HealthAfterFetch(serviceName, endpoint, outcome) ==
    IF outcome = "ok"
    THEN [value |-> TRUE,
          logs |-> << Logged(info, <<"'">> \o serviceName \o <<"' endpoint '">>
                               \o endpoint
                               \o <<"' is reachable and returned OK status.">>) >>]
    ELSE IF outcome = "notOk"
    THEN [value |-> FALSE,
          logs |-> << Logged(error, <<"'">> \o serviceName \o <<"' endpoint '">>
                               \o endpoint \o <<"' returned status">>),
                      Logged(debug, <<"Error response body for '">>
                                      \o serviceName \o <<"'">>) >>]
    ELSE IF outcome = "AbortError"
    THEN [value |-> FALSE,
          logs |-> << Logged(error, <<"Timeout checking '">> \o serviceName
                               \o <<"' endpoint '">> \o endpoint \o <<"'">>) >>]
    ELSE [value |-> FALSE,
          logs |-> << Logged(error, <<"Error checking '">> \o serviceName
                               \o <<"' endpoint '">> \o endpoint \o <<"'">>) >>]

\* reconciliationResults[serviceKey][field] = val
SetResult(results, serviceKey, field, val) ==
    [n \in DOMAIN results |->
        IF results[n].k = serviceKey
        THEN [k |-> serviceKey,
              v |-> JVal("object", PutMember(results[n].v.v, <<field>>, val))]
        ELSE results[n]]

\* the value reconcileAssets resolves to
Health(allHealthy, details) == [allHealthy |-> allHealthy, details |-> details]

NoConfigurations ==
    <<[k |-> <<"message">>, v |-> JVal("string", <<"No AI service configurations loaded.">>)]>>

\* a call of reconcileAssets that was not made yet.  serviceKey is the
\* position of the loop of line 159 in the configuration, stage the check
\* the loop is at, awaiting the request in flight, checks the checks made
\* so far with what each found
NotReconciling ==
    [pc |-> "idle", serviceKey |-> 0, stage |-> "", awaiting |-> <<>>,
     allAssetsHealthy |-> TRUE, reconciliationResults |-> <<>>,
     checks |-> <<>>, logged |-> <<>>,
     settled |-> "pending", value |-> Health(FALSE, <<>>),
     error |-> NotAFunction("")]

\* one check was made and its result stored (lines 170-174, 182-186,
\* 194-198): a failed check clears the flag
Checked(st, key, field, check, r, next) ==
    [st EXCEPT
       !.reconciliationResults = SetResult(@, key, field, JsBoolean(r.value)),
       !.allAssetsHealthy = @ /\ r.value,
       !.checks = Append(@, [service |-> key, check |-> check, passed |-> r.value]),
       !.logged = @ \o r.logs,
       !.stage = next]

\* a check was skipped and the reason stored (lines 175-178, 187-190,
\* 199-205)
Skipped(st, key, field, val, message, next) ==
    [st EXCEPT
       !.reconciliationResults = SetResult(@, key, field, val),
       !.logged = Append(@, Logged(debug, message)),
       !.stage = next]

\* the request of line 106 is in flight: the call is suspended in
\* _checkServiceEndpointHealth(serviceName, endpoint)
Suspended(st, serviceName, endpoint) ==
    [st EXCEPT !.pc = "fetch",
               !.awaiting = [serviceName |-> serviceName, endpoint |-> endpoint]]

\* lines 221-231: the loop is over
Finished(st) ==
    [st EXCEPT
       !.pc = "done",
       !.logged = @ \o << IF st.allAssetsHealthy
                          THEN Logged(info, <<"All AI assets reconciled successfully and appear healthy.">>)
                          ELSE Logged(error, <<"Issues found during AI asset reconciliation.">>),
                          Logged(info, <<"AI asset reconciliation complete.">>) >>,
       !.settled = "returned",
       !.value = Health(st.allAssetsHealthy, st.reconciliationResults)]

\* an exception leaves the async function: its promise rejects
Escaped(st, e) == [st EXCEPT !.pc = "done", !.settled = "thrown", !.error = e]

\* lines 209-218: the model version of a service that names one
ModelVersion(st, e, key, c) ==
    IF Truthy(c.modelVersionEnv)
    THEN LET modelVersion == e[The(c.modelVersionEnv)] IN
         [st EXCEPT
            !.reconciliationResults =
                SetResult(@, key, "modelVersion",
                          IF Truthy(modelVersion)
                          THEN JVal("string", The(modelVersion)) ELSE Missing),
            !.allAssetsHealthy = @ /\ Truthy(modelVersion),
            !.checks = Append(@, [service |-> key, check |-> "modelVersion",
                                  passed |-> Truthy(modelVersion)]),
            !.logged = Append(@, IF Truthy(modelVersion)
                                 THEN Logged(info, <<"'">> \o key \o <<"' Model Version: ">>
                                                     \o The(modelVersion))
                                 ELSE Logged(warn, <<"Missing model version for '">> \o key
                                                     \o <<"' from environment variable '">>
                                                     \o The(c.modelVersionEnv) \o <<"'.">>))]
    ELSE st

\* the endpoint check of line 182 or 194 up to its request: an endpoint that
\* is no URL fails the check at once (lines 97-100)
EndpointCheck(st, key, field, serviceName, endpoint, next) ==
    IF InvalidEndpoint(endpoint)
    THEN [run |-> TRUE,
          st |-> Checked(st, key, field, st.stage,
                         [value |-> FALSE,
                          logs |-> << Logged(error, <<"Invalid endpoint URL provided for '">>
                                               \o serviceName \o <<"': ">> \o endpoint) >>],
                         next)]
    ELSE [run |-> FALSE, st |-> Suspended(st, serviceName, endpoint)]

RECURSIVE Advance(_, _, _)
\* lines 159-231: reconcileAssets runs from where it is (st.serviceKey,
\* st.stage) to its next await, its return or its exception
Advance(cfgs, e, st) ==
    IF st.serviceKey > Len(cfgs) THEN Finished(st)
    ELSE
    LET key == cfgs[st.serviceKey].k
        c   == cfgs[st.serviceKey].v
    IN
    IF st.stage = "apiKey"
    THEN LET s0 == [st EXCEPT
                      !.reconciliationResults = PutMember(@, key, JVal("object", <<>>)),
                      !.logged = Append(@, Logged(info, <<"Checking configuration for service: '">>
                                                          \o key \o <<"'...">>))]
         IN
         IF Truthy(c.apiKeyEnv)
         THEN IF Truthy(c.apiKeyFormatRegex) /\ ~RegExpCompiles(The(c.apiKeyFormatRegex))
              THEN Escaped(s0, InvalidRegExp(The(c.apiKeyFormatRegex)))
              ELSE Advance(cfgs, e,
                     Checked(s0, key, "apiKeyValid", "apiKey",
                             _validateApiKey(e, The(c.apiKeyEnv),
                                             IF Truthy(c.apiKeyFormatRegex)
                                             THEN c.apiKeyFormatRegex ELSE {}),
                             "primary"))
         ELSE Advance(cfgs, e,
                Skipped(s0, key, "apiKeyValid", NotConfigured,
                        <<"No API key environment variable configured for '">> \o key \o <<"'.">>,
                        "primary"))
    ELSE IF st.stage = "primary"
    THEN IF Truthy(c.endpoint)
         THEN LET r == EndpointCheck(st, key, "primaryEndpointHealthy", key,
                                     The(c.endpoint), "status")
              IN IF r.run THEN Advance(cfgs, e, r.st) ELSE r.st
         ELSE Advance(cfgs, e,
                Skipped(st, key, "primaryEndpointHealthy", NotConfigured,
                        <<"No primary endpoint configured for '">> \o key \o <<"'.">>, "status"))
    ELSE IF st.stage = "status"
    THEN IF Truthy(c.statusEndpoint) /\ c.statusEndpoint # c.endpoint
         THEN LET r == EndpointCheck(st, key, "statusEndpointHealthy", key \o <<" Status">>,
                                     The(c.statusEndpoint), "modelVersion")
              IN IF r.run THEN Advance(cfgs, e, r.st) ELSE r.st
         ELSE IF Truthy(c.statusEndpoint)
         THEN Advance(cfgs, e,
                Skipped(st, key, "statusEndpointHealthy", SameAsPrimary,
                        <<"Status endpoint for '">> \o key \o <<"' is same as primary endpoint.">>,
                        "modelVersion"))
         ELSE Advance(cfgs, e,
                Skipped(st, key, "statusEndpointHealthy", NotConfigured,
                        <<"No dedicated status endpoint configured for '">> \o key \o <<"'.">>,
                        "modelVersion"))
    ELSE Advance(cfgs, e,
           [ModelVersion(st, e, key, c) EXCEPT !.serviceKey = @ + 1, !.stage = "apiKey"])

(***************************************************************************)
(* The state machine: one service instance, a file system, and calls of    *)
(* reconcileFiles made one after the other.                                *)
(***************************************************************************)
VARIABLES
    verbose,          \* this.verbose, fixed by the constructor
    fs,               \* the files at the paths of the calls
    calls,            \* number of reconcileFiles calls started
    pc,               \* where the running call is suspended
    args,             \* <<file1Path, file2Path>> of the running call
    result,           \* the promise returned by the running call
    accessError,      \* the rejection the access check of the call ended with
    checksumCalls,    \* _generateChecksum invocations of the call
    digests,          \* the digests the call computed
    comparatorCalls,  \* the comparators the call invoked
    emitted,          \* the _log calls of the call, in order
    changed,          \* whether a file changed while the call was running
    fsChanges,        \* number of file changes so far
    logTasks,         \* the _log calls in flight
    logFile,          \* the log file
    stderr,           \* what console.error has written
    previous,         \* the arguments and outcomes of the calls that returned
    completion,       \* the promise of a comparator that was called directly
    running,          \* the calls made without waiting for one another
    AI_SERVICE_CONFIGS, \* the configuration the reconciler module loaded
    processEnv,       \* process.env
    reconciliation    \* the call of reconcileAssets

\* the state of the file reconciliation service and of the asset reconciler
fileVars == <<verbose, fs, calls, pc, args, result, accessError, checksumCalls,
              digests, comparatorCalls, emitted, changed, fsChanges, logTasks,
              logFile, stderr, previous, completion, running>>
assetVars == <<AI_SERVICE_CONFIGS, processEnv, reconciliation>>

vars == <<fileVars, assetVars>>

\* the asset reconciler module is not loaded
AssetsNotLoaded ==
    /\ AI_SERVICE_CONFIGS = <<>>
    /\ processEnv = <<>>
    /\ reconciliation = NotReconciling

\* no method of the instance was called yet
NoCallYet ==
    /\ calls = 0
    /\ pc = "idle"
    /\ args = <<>>
    /\ result = Pending
    /\ accessError = {}
    /\ checksumCalls = 0
    /\ digests = <<>>
    /\ comparatorCalls = <<>>
    /\ emitted = <<>>
    /\ changed = FALSE
    /\ fsChanges = 0
    /\ logTasks = <<>>
    /\ logFile = <<>>
    /\ stderr = <<>>
    /\ previous = <<>>
    /\ completion = NotCalled
    /\ running = [id \in 1..MaxConcurrent |-> NotStarted]

\* lines 8-14: the constructor; the files exist before the first call
Init ==
    /\ verbose \in BOOLEAN
    /\ \E D \in SUBSET PathPool :
          /\ Cardinality(D) = 2
          /\ fs \in [D -> FileStates]
    /\ NoCallYet
    /\ AssetsNotLoaded

\* lines 24-29: reconcileFiles(file1Path, file2Path) logs its start and
\* suspends at the access check
Start(p1, p2) ==
    /\ calls' = calls + 1
    /\ previous' = IF pc = "done"
                   THEN Append(previous, [args |-> args, outcome |-> result.outcome])
                   ELSE previous
    /\ pc' = "access"
    /\ args' = <<p1, p2>>
    /\ result' = Pending
    /\ accessError' = {}
    /\ checksumCalls' = 0
    /\ digests' = <<>>
    /\ comparatorCalls' = <<>>
    /\ changed' = FALSE
    /\ LET start == LogTask(<<"Starting reconciliation for '">> \o p1 \o <<"' vs '">>
                              \o p2 \o <<"'">>, info)
       IN  /\ emitted' = <<start>>
           /\ logTasks' = Append(logTasks, start)
    /\ UNCHANGED <<assetVars, verbose, fs, fsChanges, logFile, stderr, completion, running>>

\* a call made when no call is running
Call(p1, p2) ==
    /\ pc \in {"idle", "done"}
    /\ calls < MaxCalls
    /\ Start(p1, p2)

AccessSettles(c) ==
    /\ result' = c.result
    /\ pc' = IF c.result.kind = "pending" THEN "checksum" ELSE "done"
    /\ accessError' = c.accessError
    /\ emitted' = emitted \o c.logs
    /\ logTasks' = logTasks \o c.logs

\* lines 29-38 and 76-84: the access check settles
Access ==
    /\ pc = "access"
    /\ \E first \in {args[1], args[2]} :
          AccessSettles(AccessStage(fs, args[1], args[2], first))
    /\ UNCHANGED <<assetVars, verbose, fs, calls, args, checksumCalls, digests,
                   comparatorCalls, changed, fsChanges, logFile, stderr,
                   previous, completion, running>>

ChecksumSettles(c) ==
    /\ result' = c.result
    /\ pc' = "done"
    /\ checksumCalls' = c.checksumCalls
    /\ digests' = c.digests
    /\ comparatorCalls' = c.comparators
    /\ emitted' = emitted \o c.logs
    /\ logTasks' = logTasks \o c.logs

\* lines 40-84: the checksums and what follows them.  The first
\* _generateChecksum rejects before it reads anything, so the rest of the
\* method runs in the same step.
Checksum ==
    /\ pc = "checksum"
    /\ \E first \in {args[1], args[2]} :
          ChecksumSettles(ChecksumStage(fs, args[1], args[2], verbose, first))
    /\ UNCHANGED <<assetVars, verbose, fs, calls, args, accessError, changed, fsChanges,
                   logFile, stderr, previous, completion, running>>

Remove(seq, i) == SubSeq(seq, 1, i - 1) \o SubSeq(seq, i + 1, Len(seq))

\* a _log whose failed write is dropped without a word
LogStepLost(i, ok) ==
    /\ i \in DOMAIN logTasks
    /\ IF ~ok
       THEN /\ logTasks' = Remove(logTasks, i)
            /\ UNCHANGED <<logFile, stderr>>
       ELSE /\ logFile' = Append(logFile, logTasks[i].entry)
            /\ logTasks' = Remove(logTasks, i)
            /\ UNCHANGED stderr
    /\ UNCHANGED <<assetVars, verbose, fs, calls, pc, args, result, accessError,
                   checksumCalls, digests, comparatorCalls, emitted, changed,
                   fsChanges, previous, completion, running>>

\* lines 245-254: the file-system calls of a _log in flight settle: the entry
\* is appended to the log file, or mkdir or appendFile fails and a notice and
\* the entry go to stderr.  The calls in flight settle in any order.
LogStep(i, ok) ==
    /\ i \in DOMAIN logTasks
    /\ IF ~ok
       THEN /\ stderr' = stderr \o << <<"Failed to write to reconciliation log file: ">>,
                                      logTasks[i].entry >>
            /\ logTasks' = Remove(logTasks, i)
            /\ UNCHANGED logFile
       ELSE /\ logFile' = Append(logFile, logTasks[i].entry)
            /\ logTasks' = Remove(logTasks, i)
            /\ UNCHANGED stderr
    /\ UNCHANGED <<assetVars, verbose, fs, calls, pc, args, result, accessError,
                   checksumCalls, digests, comparatorCalls, emitted, changed,
                   fsChanges, previous, completion, running>>

\* the environment: a file is removed, protected or rewritten after the
\* access check of the running call (a change before it is another initial
\* state)
FsChange(p, st) ==
    /\ pc = "checksum"
    /\ fsChanges < MaxFsChanges
    /\ p \in DOMAIN fs
    /\ st # fs[p]
    /\ fs' = [fs EXCEPT ![p] = st]
    /\ fsChanges' = fsChanges + 1
    /\ changed' = TRUE
    /\ UNCHANGED <<assetVars, verbose, calls, pc, args, result, accessError, checksumCalls,
                   digests, comparatorCalls, emitted, logTasks, logFile, stderr,
                   previous, completion, running>>

Next ==
    \/ \E p1 \in DOMAIN fs, p2 \in DOMAIN fs : Call(p1, p2)
    \/ Access
    \/ Checksum
    \/ \E i \in 1..Len(logTasks), ok \in BOOLEAN : LogStep(i, ok)
    \/ \E p \in DOMAIN fs, st \in FileStates : FsChange(p, st)

Spec == Init /\ [][Next]_vars

(***************************************************************************)
(* Calls repeated on the same instance over files that do not change.      *)
(***************************************************************************)
\* number of reconcileFiles calls made one after the other on unchanged files
MaxRepeats == 2

\* the paths of the repeated calls: two with the same extension, one with
\* another
RepeatPaths ==
    { <<"a", ".", "t", "x", "t">>,
      <<"B", ".", "T", "X", "T">>,
      <<"c", ".", "j", "s", "o", "n">> }

InitTwice ==
    /\ verbose \in BOOLEAN
    /\ \E D \in SUBSET RepeatPaths :
          /\ Cardinality(D) = 2
          /\ fs \in [D -> FileStates]
    /\ NoCallYet
    /\ AssetsNotLoaded

\* a call made when no call is running, the files being what they were
Reconcile(p1, p2) ==
    /\ pc \in {"idle", "done"}
    /\ calls < MaxRepeats
    /\ Start(p1, p2)

NextTwice ==
    \/ \E p1 \in DOMAIN fs, p2 \in DOMAIN fs : Reconcile(p1, p2)
    \/ Access
    \/ Checksum
    \/ \E i \in 1..Len(logTasks), ok \in BOOLEAN : LogStep(i, ok)

SpecTwice == InitTwice /\ [][NextTwice]_vars

(***************************************************************************)
(* Calls made on the same instance without waiting for one another: each   *)
(* call runs up to its next await, and the calls take turns in any order.  *)
(***************************************************************************)
InFlight(id) == running[id].pc \in {"access", "checksum"}

\* the paths of these calls, with different extensions (a call on one path
\* twice goes on to the checksums), and the states of the files
PairPaths ==
    { <<"a", ".", "t", "x", "t">>,
      <<"c", ".", "j", "s", "o", "n">> }

PairStates ==
    { [err |-> "ENOENT", data |-> <<>>],
      [err |-> "EACCES", data |-> <<>>],
      [err |-> "", data |-> <<"x">>] }

InitPair ==
    /\ verbose \in BOOLEAN
    /\ fs \in [PairPaths -> PairStates]
    /\ NoCallYet
    /\ AssetsNotLoaded

\* lines 24-29: a call starts while others may be suspended
Begin(id, p1, p2) ==
    /\ running[id].pc = "idle"
    /\ running' = [i \in DOMAIN running |->
                     IF i = id
                     THEN [pc |-> "access", args |-> <<p1, p2>>, result |-> Pending,
                           overlapped |-> \E o \in DOMAIN running : InFlight(o)]
                     ELSE IF InFlight(i) THEN [running[i] EXCEPT !.overlapped = TRUE]
                     ELSE running[i]]
    /\ logTasks' = Append(logTasks,
                          LogTask(<<"Starting reconciliation for '">> \o p1
                                    \o <<"' vs '">> \o p2 \o <<"'">>, info))
    /\ UNCHANGED <<assetVars, verbose, fs, calls, pc, args, result, accessError,
                   checksumCalls, digests, comparatorCalls, emitted, changed,
                   fsChanges, logFile, stderr, previous, completion>>

\* a version in which the stage's result is kept in a field of the instance,
\* where every suspended call finds it
StageSettlesShared(id, c) ==
    /\ running' = [i \in DOMAIN running |->
                     IF InFlight(i)
                     THEN [running[i] EXCEPT
                             !.result = c.result,
                             !.pc = IF c.result.kind = "pending" THEN "checksum"
                                    ELSE "done"]
                     ELSE running[i]]
    /\ logTasks' = logTasks \o c.logs

\* a stage of call id settles with c: result and position are the locals of
\* that call
StageSettles(id, c) ==
    /\ running' = [running EXCEPT
                     ![id].result = c.result,
                     ![id].pc = IF c.result.kind = "pending" THEN "checksum"
                                ELSE "done"]
    /\ logTasks' = logTasks \o c.logs

\* lines 29-38 and 76-84: the access check of call id settles
AccessOf(id) ==
    /\ running[id].pc = "access"
    /\ \E first \in {running[id].args[1], running[id].args[2]} :
          StageSettles(id, AccessStage(fs, running[id].args[1], running[id].args[2],
                                       first))
    /\ UNCHANGED <<assetVars, verbose, fs, calls, pc, args, result, accessError,
                   checksumCalls, digests, comparatorCalls, emitted, changed,
                   fsChanges, logFile, stderr, previous, completion>>

\* lines 40-84: the checksums of call id and what follows them
ChecksumOf(id) ==
    /\ running[id].pc = "checksum"
    /\ \E first \in {running[id].args[1], running[id].args[2]} :
          StageSettles(id, ChecksumStage(fs, running[id].args[1],
                                         running[id].args[2], verbose, first))
    /\ UNCHANGED <<assetVars, verbose, fs, calls, pc, args, result, accessError,
                   checksumCalls, digests, comparatorCalls, emitted, changed,
                   fsChanges, logFile, stderr, previous, completion>>

NextPair ==
    \/ \E id \in DOMAIN running, p1 \in DOMAIN fs, p2 \in DOMAIN fs : Begin(id, p1, p2)
    \/ \E id \in DOMAIN running : AccessOf(id)
    \/ \E id \in DOMAIN running : ChecksumOf(id)
    \/ \E i \in 1..Len(logTasks), ok \in BOOLEAN : LogStep(i, ok)

SpecPair == InitPair /\ [][NextPair]_vars

(***************************************************************************)
(* The comparators called directly on two files: _compareTextFiles and     *)
(* _compareJsonFiles are methods of the instance like any other.           *)
(***************************************************************************)
\* longest text file made of arbitrary lines, and longest uniform text file
MaxShortLines == 2
MaxLongLines == 10

LineAlphabet == { <<"x">>, <<"y">> }

RECURSIVE JoinLines(_)
\* the bytes of a text file with the given lines, "\n" between them
JoinLines(ls) ==
    IF ls = <<>> THEN <<>>
    ELSE IF Len(ls) = 1 THEN ls[1]
    ELSE ls[1] \o <<"\n">> \o JoinLines(Tail(ls))

\* the text files compared: every file of up to MaxShortLines lines, uniform
\* files of a length around the cap on reported differences and of
\* MaxLongLines lines, and files whose last line is terminated
TextDocs ==
    { JoinLines(ls) :
        ls \in UNION { [1..n -> LineAlphabet] : n \in 0..MaxShortLines } }
    \cup { JoinLines([i \in 1..n |-> l]) :
            l \in LineAlphabet,
            n \in {MaxDiffDetails - 1, MaxDiffDetails, MaxDiffDetails + 1,
                   MaxLongLines} }
    \cup { <<"x", "\n">>, <<"x", "\r", "\n", "y", "\n">> }

\* the JSON documents compared; the last one is truncated
JsonDocs ==
    { <<"{", "\"", "a", "\"", ":", "1", ",", "\"", "b", "\"", ":", "2", "}">>,
      <<"{", "\"", "b", "\"", ":", "2", ",", "\"", "a", "\"", ":", "1", "}">>,
      <<"{", "\"", "a", "\"", ":", "1", "}">>,
      <<"[", "1", ",", "2", "]">>,
      <<"[", "1", ",", " ", "2", "]">>,
      <<"[", "2", ",", "1", "]">>,
      <<"1">>,
      <<"\"", "1", "\"">>,
      <<"{", "\"", "a", "\"", ":", "[", "1", ",", "2", "]", "}">>,
      <<"{", "\"", "a", "\"", ":", "[", "2", ",", "1", "]", "}">>,
      <<"{", "\"", "a", "\"", ":", "{", "\"", "b", "\"", ":", "1", ",", "\"", "c", "\"", ":", "2", "}", "}">>,
      <<"{", "\"", "a", "\"", ":", "{", "\"", "c", "\"", ":", "2", ",", "\"", "b", "\"", ":", "1", "}", "}">>,
      <<"[", "]">>,
      <<"{", "}">>,
      <<"n", "u", "l", "l">>,
      <<"[", "1", ",", "2">> }

CompareStates ==
    { [err |-> "", data |-> d] : d \in TextDocs \cup JsonDocs }
      \cup { [err |-> "ENOENT", data |-> <<>>] }

\* the paths of the files compared
ComparePaths ==
    { <<"l", "/", "a", ".", "t", "x", "t">>,
      <<"r", ".", "t", "x", "t">> }

InitCompare ==
    /\ verbose \in BOOLEAN
    /\ fs \in [ComparePaths -> CompareStates]
    /\ NoCallYet
    /\ AssetsNotLoaded

\* the next() calls made on the two line iterators by the time
\* _compareTextFiles returns from its loop
TextPulls(files, p1, p2, v) ==
    IF "createReadStream" \in FsPromises /\ files[p1].err = "" /\ files[p2].err = ""
    THEN << TextRun(Lines(files[p1].data), Lines(files[p2].data), p1, p2, v).k1,
            TextRun(Lines(files[p1].data), Lines(files[p2].data), p1, p2, v).k2 >>
    ELSE <<0, 0>>

\* line sources in which rl1 is created and the creation of rl2 throws
TextReadersSecondFails(files, p1, p2) == [opened |-> {1}, closed |-> {}]

\* lines 116-123 and 178-182: the line sources _compareTextFiles has created
\* and closed by the time its promise settles.  The argument of the first
\* createInterface call is evaluated first, so when fs.createReadStream
\* throws no line source exists yet; once both exist the method is inside
\* the try block, whose finally closes both on every way out.
TextReaders(files, p1, p2) ==
    IF "createReadStream" \notin FsPromises THEN NoReaders
    ELSE [opened |-> {1, 2}, closed |-> {1, 2}]

\* the promise of a comparator settles: r is its completion
ComparatorSettles(name, p1, p2, r, pulls, readers) ==
    /\ completion' = [of |-> name, args |-> <<p1, p2>>, ok |-> r.ok,
                      value |-> r.value, error |-> r.error, pulls |-> pulls,
                      readers |-> readers]
    /\ emitted' = emitted \o r.logs
    /\ logTasks' = logTasks \o r.logs

\* lines 110-185: _compareTextFiles(file1Path, file2Path) called and settled
CompareText(p1, p2) ==
    /\ pc = "idle"
    /\ completion = NotCalled
    /\ ComparatorSettles("_compareTextFiles", p1, p2,
                         _compareTextFiles(fs, p1, p2, verbose),
                         TextPulls(fs, p1, p2, verbose), TextReaders(fs, p1, p2))
    /\ UNCHANGED <<assetVars, verbose, fs, calls, pc, args, result, accessError,
                   checksumCalls, digests, comparatorCalls, changed, fsChanges,
                   logFile, stderr, previous, running>>

\* lines 200-234: _compareJsonFiles(file1Path, file2Path) called and settled
CompareJson(p1, p2, first) ==
    /\ pc = "idle"
    /\ completion = NotCalled
    /\ ComparatorSettles("_compareJsonFiles", p1, p2,
                         _compareJsonFiles(fs, p1, p2, verbose, first), <<0, 0>>,
                         NoReaders)
    /\ UNCHANGED <<assetVars, verbose, fs, calls, pc, args, result, accessError,
                   checksumCalls, digests, comparatorCalls, changed, fsChanges,
                   logFile, stderr, previous, running>>

NextCompare ==
    \/ \E p1 \in DOMAIN fs, p2 \in DOMAIN fs : CompareText(p1, p2)
    \/ \E p1 \in DOMAIN fs, p2 \in DOMAIN fs :
          \E first \in {p1, p2} : CompareJson(p1, p2, first)
    \/ \E i \in 1..Len(logTasks), ok \in BOOLEAN : LogStep(i, ok)

SpecCompare == InitCompare /\ [][NextCompare]_vars

(***************************************************************************)
(* reconcileAssets called once on a loaded configuration.                  *)
(***************************************************************************)
\* the services of the example configuration (lines 36-52), in file order
ServiceKeys == << <<"openAi">>, <<"googleCloudNLP">>, <<"customInternalSentimentModel">> >>

ApiKeyEnv == <<"OPENAI_API_KEY">>
ModelVersionEnv == <<"SENTIMENT_MODEL_VERSION">>

\* the configurations of one service: each field absent or present, a key
\* format that is the pattern of line 41 or no regular expression, an
\* endpoint that is a URL or not, a status endpoint equal to the primary or
\* not.  Without a key variable the only format kept is the one that does
\* not compile.
ServiceConfigs ==
    { c \in [apiKeyEnv : {{}, {ApiKeyEnv}},
             apiKeyFormatRegex : {{}, {<<"^", "sk-">>}, {<<"(">>}},
             endpoint : {{}, {<<"http", "://p">>}, {<<"p">>}},
             statusEndpoint : {{}, {<<"http", "://p">>}, {<<"http", "://s">>}},
             modelVersionEnv : {{}, {ModelVersionEnv}}] :
        c.apiKeyEnv = {} => c.apiKeyFormatRegex # {<<"^", "sk-">>} }

\* the contents of config/aiServiceConfigs.json
ConfigFiles ==
    UNION { { [n \in 1..len |-> [k |-> ServiceKeys[n], v |-> f[n]]] :
                f \in [1..len -> ServiceConfigs] } : len \in 0..MaxServices }

\* process.env: the key unset, blank, of the format, of another format; the
\* model version unset, empty, set
Environments ==
    { (ApiKeyEnv :> k) @@ (ModelVersionEnv :> m) :
        k \in {{}, {<<" ">>}, {<<"sk-", "1">>}, {<<"zz">>}},
        m \in {{}, {<<>>}, {<<"v1">>}} }

\* lines 54-65: the module is loaded.  When the file cannot be required the
\* configuration stays empty.
InitAssets ==
    /\ verbose = FALSE
    /\ fs = <<>>
    /\ NoCallYet
    /\ processEnv \in Environments
    /\ \E loaded \in BOOLEAN :
          /\ AI_SERVICE_CONFIGS \in (IF loaded THEN ConfigFiles ELSE {<<>>})
          /\ reconciliation =
               [NotReconciling EXCEPT
                  !.logged = << IF loaded
                                THEN Logged(info, <<"Loaded AI service configurations from config/aiServiceConfigs.json.">>)
                                ELSE Logged(error, <<"Failed to load AI service configurations from config/aiServiceConfigs.json">>) >>]

\* lines 146-157: reconcileAssets() is called and runs to its first await,
\* or to its end when no request is made
reconcileAssets ==
    /\ reconciliation.pc = "idle"
    /\ LET st == [reconciliation EXCEPT
                    !.logged = Append(@, Logged(info, <<"Starting AI asset reconciliation...">>))]
       IN reconciliation' =
            IF Len(AI_SERVICE_CONFIGS) = 0
            THEN [st EXCEPT
                    !.pc = "done",
                    !.logged = Append(@, Logged(warn, <<"No AI service configurations found.">>)),
                    !.settled = "returned",
                    !.value = Health(FALSE, NoConfigurations)]
            ELSE Advance(AI_SERVICE_CONFIGS, processEnv,
                         [st EXCEPT !.serviceKey = 1, !.stage = "apiKey"])
    /\ UNCHANGED <<fileVars, AI_SERVICE_CONFIGS, processEnv>>

\* lines 106-135 and the rest of the loop: the request in flight ends, the
\* check returns, and reconcileAssets runs on to its next await or its end
FetchSettles(outcome) ==
    /\ reconciliation.pc = "fetch"
    /\ LET key == AI_SERVICE_CONFIGS[reconciliation.serviceKey].k
           r   == HealthAfterFetch(reconciliation.awaiting.serviceName,
                                   reconciliation.awaiting.endpoint, outcome)
           st  == [reconciliation EXCEPT !.pc = "running", !.awaiting = <<>>]
       IN reconciliation' =
            Advance(AI_SERVICE_CONFIGS, processEnv,
                    IF reconciliation.stage = "primary"
                    THEN Checked(st, key, "primaryEndpointHealthy", "primary", r, "status")
                    ELSE Checked(st, key, "statusEndpointHealthy", "status", r,
                                 "modelVersion"))
    /\ UNCHANGED <<fileVars, AI_SERVICE_CONFIGS, processEnv>>

NextAssets ==
    \/ reconcileAssets
    \/ \E outcome \in FetchOutcomes : FetchSettles(outcome)

SpecAssets == InitAssets /\ [][NextAssets]_vars

(***************************************************************************)
(* Properties of reconcileFiles.                                           *)
(***************************************************************************)
Done == pc = "done"
Readable(p) == fs[p].err = ""
\* both files of the running call can be read and did not change under it
BothReadable == ~changed /\ Readable(args[1]) /\ Readable(args[2])
\* the paths that cannot be accessed
Inaccessible == { p \in {args[1], args[2]} : ~Readable(p) }
SameExtension == ~ExtensionsDiffer(args[1], args[2])
CommonExtension == toLowerCase(extname(args[1]))
TextExtensions == { <<".", "t", "x", "t">>, <<".", "c", "s", "v">> }
JsonExtension == <<".", "j", "s", "o", "n">>
SameBytes == fs[args[1]].data = fs[args[2]].data
DigestOf(p) == Digest(checksumAlgorithm, fs[p].data)
NoDetails == result.outcome.details \subseteq {<<>>}
NoChecksums == result.outcome.checksum1 = {} /\ result.outcome.checksum2 = {}
BothChecksums ==
    /\ result.outcome.checksum1 = {DigestOf(args[1])}
    /\ result.outcome.checksum2 = {DigestOf(args[2])}
\* the verdict the comparison loop of lines 129-184 reaches on the two files
TextVerdictOfFiles ==
    TextReturn(TextRun(Lines(fs[args[1]].data), Lines(fs[args[2]].data),
                       args[1], args[2], verbose)).value
\* the verdict of lines 209-227 on the two files
JsonVerdictOfFiles ==
    JsonCompare(JsonParse(fs[args[1]].data), JsonParse(fs[args[2]].data)).value
VerdictOfFiles ==
    IF CommonExtension \in TextExtensions THEN TextVerdictOfFiles
    ELSE JsonVerdictOfFiles

\* C1: reconcileFiles never rejects: whatever fails inside (access, checksum,
\* comparator, logging), the promise of the call is never rejected, and the
\* call completes by returning an outcome whose status is one of the six
\* values.
C1_NeverThrows ==
    /\ result.kind \in {"pending", "returned"}
    /\ Done => result.kind = "returned" /\ result.outcome.status \in Statuses

\* C1 witness: a call whose checksum computation failed and one of whose log
\* entries could not be written has returned an ERROR outcome.
C1_Witness ==
    /\ Done /\ result.kind = "returned" /\ result.outcome.status = "ERROR"
    /\ checksumCalls = 1 /\ stderr # <<>>

\* C2: an outcome whose status is not MISMATCH_CONTENT has no details, or an
\* empty details list.
C2_DetailsOnlyOnMismatch ==
    Done /\ result.outcome.status # "MISMATCH_CONTENT" => NoDetails

\* C2 witness: a call that went as far as the checksums has returned an
\* outcome whose status is not MISMATCH_CONTENT.
C2_Witness ==
    Done /\ result.outcome.status # "MISMATCH_CONTENT" /\ checksumCalls > 0

C4_FastPath ==
    Done /\ BothReadable /\ SameExtension /\ SameBytes
    => /\ result.outcome.status = "MATCH"
       /\ BothChecksums
       /\ result.outcome.checksum1 = result.outcome.checksum2
       /\ NoDetails
       /\ comparatorCalls = <<>>

\* C5: the extension gate: when both paths are accessible and their
\* lower-cased extensions differ, no checksum computation is ever started and
\* no comparator invoked, and the outcome is MISMATCH_EXTENSIONS without
\* checksum fields.
C5_ExtensionGate ==
    pc # "idle" /\ BothReadable /\ ~SameExtension
    => /\ checksumCalls = 0
       /\ comparatorCalls = <<>>
       /\ Done => result.outcome.status = "MISMATCH_EXTENSIONS" /\ NoChecksums

\* C5 witness: a call on two accessible files with different extensions has
\* returned.
C5_Witness == Done /\ BothReadable /\ ~SameExtension

C7_NotFoundOnlyFromAccess ==
    Done /\ result.outcome.status = "FILE_NOT_FOUND"
    => /\ accessError # {}
       /\ checksumCalls = 0
       /\ comparatorCalls = <<>>
       /\ NoChecksums

\* C7 witness: a call has ended in FILE_NOT_FOUND.
C7_Witness == Done /\ result.outcome.status = "FILE_NOT_FOUND"

\* C8: the unsupported-type gate: for two readable files with the same
\* extension, none of .txt, .csv, .json, the outcome is UNSUPPORTED_TYPE with
\* both checksums, no details and no comparator invoked when the bytes differ,
\* and MATCH when they are the same.
C8_UnsupportedGate ==
    Done /\ BothReadable /\ SameExtension
         /\ CommonExtension \notin TextExtensions \cup {JsonExtension}
    => /\ comparatorCalls = <<>>
       /\ ~SameBytes => /\ result.outcome.status = "UNSUPPORTED_TYPE"
                        /\ BothChecksums
                        /\ NoDetails
       /\ SameBytes => result.outcome.status = "MATCH"

C11_ChecksumOfWholeFile ==
    Done /\ ~changed /\ Readable(args[1]) /\ checksumCalls >= 1
    => /\ Len(digests) >= 1
       /\ digests[1] = DigestOf(args[1])

\* C17: malformed JSON is a content mismatch: for two readable .json files
\* with different bytes of which at least one does not parse, the outcome is
\* MISMATCH_CONTENT (not ERROR) with both checksums and a details list of
\* exactly one entry, the description of the parse failure.
C17_MalformedJsonIsMismatch ==
    Done /\ BothReadable /\ SameExtension /\ CommonExtension = JsonExtension
         /\ ~SameBytes
         /\ (~JsonParse(fs[args[1]].data).ok \/ ~JsonParse(fs[args[2]].data).ok)
    => /\ result.outcome.status = "MISMATCH_CONTENT"
       /\ BothChecksums
       /\ \E d \in result.outcome.details :
             /\ Len(d) = 1
             /\ d[1][1] = "Error parsing JSON: "

(***************************************************************************)
(* Properties of the comparators.                                          *)
(***************************************************************************)
TextCalled == completion.of = "_compareTextFiles"
JsonCalled == completion.of = "_compareJsonFiles"
\* both files handed to the comparator can be read
ComparedReadable ==
    fs[completion.args[1]].err = "" /\ fs[completion.args[2]].err = ""
Left == Lines(fs[completion.args[1]].data)
Right == Lines(fs[completion.args[2]].data)
\* number of lines of the shorter file, and which argument the longer one is
ShortLen == IF Len(Left) <= Len(Right) THEN Len(Left) ELSE Len(Right)
LongLen == IF Len(Left) <= Len(Right) THEN Len(Right) ELSE Len(Left)
LongerArg == IF Len(Left) < Len(Right) THEN 2 ELSE 1
ShorterArg == IF Len(Left) < Len(Right) THEN 1 ELSE 2
LongerLines == IF LongerArg = 1 THEN Left ELSE Right
\* the positions up to the end of the shorter file at which the lines differ
DifferingAt == { i \in 1..ShortLen : Left[i] # Right[i] }
\* the entries of a details list
PrematureEntry(n, p) ==
    <<"Line count mismatch starting at line ">> \o DecStr(n) \o <<": File '">>
      \o basename(p) \o <<"' ended prematurely.">>
OnlyInEntry(n, arg, p, line) ==
    <<"Line ">> \o DecStr(n) \o <<": Only in File ">> \o DecStr(arg) \o <<" ('">>
      \o basename(p) \o <<"'): \"">> \o line \o <<"\"">>
IsDiffersEntry(d) == \E i \in DOMAIN d : d[i] = " differs: File 1: \""
TruncationNotice ==
    <<"Further differences truncated (verbose logging not enabled).">>
DiffersEntries(details) == { i \in DOMAIN details : IsDiffersEntry(details[i]) }

\* C12: the text comparator's verdict is exact: called on two readable files,
\* verbose or not, _compareTextFiles returns isMatch = true if and only if
\* the files have the same number of lines and equal lines at every position.
C12_TextVerdictExact ==
    TextCalled /\ ComparedReadable
    => /\ completion.ok
       /\ completion.value.isMatch
            <=> /\ Len(Left) = Len(Right)
                /\ \A i \in 1..ShortLen : Left[i] = Right[i]

\* C13: line-count mismatch, not verbose: when the shorter file has k lines,
\* the other more, and the first k lines are pairwise equal, details is
\* exactly one entry naming line k+1 and the shorter file, and the comparator
\* has pulled k+1 lines from the longer file and no more.
C13_LineCountMismatchQuiet ==
    TextCalled /\ ComparedReadable /\ ~verbose
      /\ ShortLen < LongLen /\ DifferingAt = {}
    => /\ completion.ok
       /\ completion.value.details =
            << PrematureEntry(ShortLen + 1, completion.args[ShorterArg]) >>
       /\ completion.pulls[LongerArg] = ShortLen + 1

\* C14: line-count mismatch, verbose: when one file has k lines and the other
\* k+m, details holds (after the entries for differing lines among the first
\* k) exactly one premature-termination entry naming line k+1 and the shorter
\* file, then exactly m 'only in file N' entries, one per remaining line of
\* the longer file in order, numbered k+1 .. k+m with the line's content, and
\* nothing after them.
C14_LineCountMismatchVerbose ==
    TextCalled /\ ComparedReadable /\ verbose /\ ShortLen < LongLen
    => /\ completion.ok
       /\ Len(completion.value.details)
            = Cardinality(DifferingAt) + 1 + (LongLen - ShortLen)
       /\ completion.value.details[Cardinality(DifferingAt) + 1]
            = PrematureEntry(ShortLen + 1, completion.args[ShorterArg])
       /\ \A j \in 1..(LongLen - ShortLen) :
             completion.value.details[Cardinality(DifferingAt) + 1 + j]
               = OnlyInEntry(ShortLen + j, LongerArg, completion.args[LongerArg],
                             LongerLines[ShortLen + j])

\* C15: the cap on differing lines, not verbose: details never has more than
\* MaxDiffDetails 'Line n differs' entries nor more than MaxDiffDetails + 1
\* entries; when the files differ at MaxDiffDetails positions or more, details
\* is the first MaxDiffDetails 'differs' entries followed by the truncation
\* notice and no line after the last of them was pulled; otherwise there is
\* no truncation notice.
C15_DifferingLineCap ==
    TextCalled /\ ComparedReadable /\ ~verbose
    => /\ completion.ok
       /\ Cardinality(DiffersEntries(completion.value.details)) <= MaxDiffDetails
       /\ Len(completion.value.details) <= MaxDiffDetails + 1
       /\ IF Cardinality(DifferingAt) >= MaxDiffDetails
          THEN /\ Len(completion.value.details) = MaxDiffDetails + 1
               /\ DiffersEntries(completion.value.details) = 1..MaxDiffDetails
               /\ completion.value.details[MaxDiffDetails + 1] = TruncationNotice
               /\ \E last \in DifferingAt :
                     /\ Cardinality({ i \in DifferingAt : i <= last }) = MaxDiffDetails
                     /\ completion.pulls = <<last, last>>
          ELSE \A i \in DOMAIN completion.value.details :
                  completion.value.details[i] # TruncationNotice

\* the two documents handed to the JSON comparator
LeftText == fs[completion.args[1]].data
RightText == fs[completion.args[2]].data
WellFormed(text) == JsonParse(text).ok

RECURSIVE DeeplyEqual(_, _)
\* deep equality as the specification words it: objects are equal iff they
\* have the same key set and equal values under each key, arrays iff they
\* have the same length and equal elements at each index, scalars iff they
\* have the same type and the same value
DeeplyEqual(a, b) ==
    CASE a.t = "object" /\ b.t = "object" ->
           /\ { m.k : m \in { a.v[n] : n \in DOMAIN a.v } }
                = { m.k : m \in { b.v[n] : n \in DOMAIN b.v } }
           /\ \A i \in DOMAIN a.v, j \in DOMAIN b.v :
                 a.v[i].k = b.v[j].k => DeeplyEqual(a.v[i].v, b.v[j].v)
      [] a.t = "array" /\ b.t = "array" ->
           /\ Len(a.v) = Len(b.v)
           /\ \A i \in DOMAIN a.v : DeeplyEqual(a.v[i], b.v[i])
      [] a.t \notin {"object", "array"} /\ b.t = a.t -> a.v = b.v
      [] OTHER -> FALSE

DocAB == <<"{", "\"", "a", "\"", ":", "1", ",", "\"", "b", "\"", ":", "2", "}">>
DocBA == <<"{", "\"", "b", "\"", ":", "2", ",", "\"", "a", "\"", ":", "1", "}">>
Doc12 == <<"[", "1", ",", "2", "]">>
Doc21 == <<"[", "2", ",", "1", "]">>
DocNumber1 == <<"1">>
DocString1 == <<"\"", "1", "\"">>

\* C16: for two well-formed JSON documents the JSON comparator returns
\* isMatch = true exactly when they are deeply equal (objects by key set and
\* per-key values whatever the key order, arrays index-wise, scalars without
\* coercion), with no detail on equality and exactly one detail entry on
\* inequality; {"a":1,"b":2} matches {"b":2,"a":1}, [1,2] does not match
\* [2,1], and 1 does not match "1".
C16_JsonDeepEquality ==
    JsonCalled /\ ComparedReadable /\ WellFormed(LeftText) /\ WellFormed(RightText)
    => /\ completion.ok
       /\ completion.value.isMatch
            <=> DeeplyEqual(JsonParse(LeftText).val, JsonParse(RightText).val)
       /\ Len(completion.value.details) = IF completion.value.isMatch THEN 0 ELSE 1
       /\ LeftText = DocAB /\ RightText = DocBA => completion.value.isMatch
       /\ LeftText = Doc12 /\ RightText = Doc21 => ~completion.value.isMatch
       /\ LeftText = DocNumber1 /\ RightText = DocString1 => ~completion.value.isMatch

\* C16 witness: the JSON comparator was called on {"a":1,"b":2} and
\* {"b":2,"a":1} and returned a match.
C16_Witness ==
    /\ JsonCalled /\ ComparedReadable
    /\ LeftText = DocAB /\ RightText = DocBA
    /\ completion.ok /\ completion.value.isMatch

(***************************************************************************)
(* Properties of repeated calls.                                           *)
(***************************************************************************)
\* the call before the running one
Last == previous[Len(previous)]
Repeated == Done /\ previous # <<>> /\ Last.args = args
Swapped == Done /\ previous # <<>> /\ Last.args = <<args[2], args[1]>>

\* C18: determinism across calls: a call with the arguments of the call
\* before it, on files that did not change, returns the same status,
\* checksum1, checksum2 and details.
C18_RepeatedCallSameOutcome ==
    Repeated
    => /\ result.outcome.status = Last.outcome.status
       /\ result.outcome.checksum1 = Last.outcome.checksum1
       /\ result.outcome.checksum2 = Last.outcome.checksum2
       /\ result.outcome.details = Last.outcome.details

TerminalHeads ==
    { "File extensions do not match: '",
      "Checksums match for '",
      "Unsupported file type for content comparison: '",
      "Content matches for '",
      "Content mismatch detected between '",
      "One or both files not found: ",
      "Error during file reconciliation: " }
\* the message of an entry follows "[", the level and "] "
IsTerminalLine(t) == t.entry[Len(t.level) + 3] \in TerminalHeads
TerminalLines == SelectSeq(emitted, IsTerminalLine)
Severity(status) ==
    CASE status = "MATCH" -> info
      [] status \in {"MISMATCH_EXTENSIONS", "UNSUPPORTED_TYPE"} -> warn
      [] OTHER -> error
\* the lines written so far, to the log file or to the console
Written == logFile \o stderr
Occurrences(seq, x) == Cardinality({ i \in DOMAIN seq : seq[i] = x })

\* C20: every run logs its terminal transition exactly once at the severity
\* of the outcome: a call that has not returned has logged no terminal line;
\* a call that returned has logged exactly one, as its last log call, at info
\* for MATCH, warn for MISMATCH_EXTENSIONS and UNSUPPORTED_TYPE, and error for
\* MISMATCH_CONTENT, ERROR and FILE_NOT_FOUND; and once the log calls have
\* settled that line was written, once for the run (so at most once for each
\* call made so far, an earlier call on the same arguments having written the
\* same line).
C20_OneTerminalLogLine ==
    /\ ~Done => Len(TerminalLines) = 0
    /\ Done => /\ Len(TerminalLines) = 1
               /\ emitted[Len(emitted)] = TerminalLines[1]
               /\ TerminalLines[1].level = Severity(result.outcome.status)
               /\ logTasks = <<>>
                    => Occurrences(Written, TerminalLines[1].entry) \in 1..calls

\* C20 witness: a call returned ERROR and its log calls have settled.
C20_Witness ==
    /\ Done /\ result.outcome.status = "ERROR" /\ logTasks = <<>>
    /\ emitted[Len(emitted)].level = error

\* the outcomes reconcileFiles returns on the files as they are, whichever
\* access rejection is reported first, computed from the files alone
OutcomesOn(files, p1, p2, v) ==
    { (IF AccessStage(files, p1, p2, first).result.kind = "pending"
       THEN ChecksumStage(files, p1, p2, v, first).result
       ELSE AccessStage(files, p1, p2, first).result).outcome : first \in {p1, p2} }
\* the entries of the console that follow a failure notice
FailureNotice == <<"Failed to write to reconciliation log file: ">>
FallbackEntries == { stderr[i] : i \in { j \in DOMAIN stderr : j % 2 = 0 } }
InFlightEntries == { logTasks[i].entry : i \in DOMAIN logTasks }
AppendedEntries == { logFile[i] : i \in DOMAIN logFile }

\* C21: a logging failure never changes the result: whatever became of the
\* log calls, a call on files that did not change returns an outcome it
\* returns on those files when every log call succeeds; and every log entry
\* of the call whose write has settled is in the log file or, after a failure
\* notice, on standard error.
C21_LoggingNeverChangesResult ==
    /\ Done /\ ~changed
         => result.outcome \in OutcomesOn(fs, args[1], args[2], verbose)
    /\ \A i \in DOMAIN emitted :
          emitted[i].entry \in InFlightEntries \cup AppendedEntries \cup FallbackEntries
    /\ \A j \in DOMAIN stderr : j % 2 = 1 => stderr[j] = FailureNotice

\* C21 witness: every log call of a call failed, the entries are on standard
\* error, and the call returned MISMATCH_EXTENSIONS all the same.
C21_Witness ==
    /\ Done /\ ~changed /\ result.outcome.status = "MISMATCH_EXTENSIONS"
    /\ logTasks = <<>> /\ logFile = <<>>
    /\ \A i \in DOMAIN emitted : emitted[i].entry \in FallbackEntries

(***************************************************************************)
(* Further properties of the text comparator.                              *)
(***************************************************************************)
\* C22: a read error in the text comparator is a verdict, not a fault: when
\* one of the files handed to _compareTextFiles cannot be opened or read, the
\* comparator returns isMatch = false with a details list of exactly one
\* entry, the description of the read failure, and logs the error.
C22_ReadErrorIsVerdict ==
    TextCalled /\ ~ComparedReadable
    => /\ completion.ok
       /\ ~completion.value.isMatch
       /\ Len(completion.value.details) = 1
       /\ completion.value.details[1][1] = "Error reading files for comparison: "

\* C24: the text comparator terminates with a verdict: called on two readable
\* files, verbose or not, it returns, having advanced each cursor at least
\* once (to the first line or the end) and at most two steps past the last
\* line of its file.
C24_TextComparatorReturns ==
    TextCalled /\ ComparedReadable
    => /\ completion.ok
       /\ completion.pulls[1] \in 1..(Len(Left) + 2)
       /\ completion.pulls[2] \in 1..(Len(Right) + 2)

DiffersEntry(n) ==
    <<"Line ">> \o DecStr(n) \o <<" differs: File 1: \"">> \o Left[n]
      \o <<"\" | File 2: \"">> \o Right[n] \o <<"\"">>

\* C27: no cap in verbose mode: the details list returned by the verbose
\* text comparator holds exactly one 'Line n differs' entry for every
\* position n at which both files have a line and the lines differ, in
\* increasing order of n, and no truncation notice.
C27_VerboseNoCap ==
    TextCalled /\ ComparedReadable /\ verbose
    => /\ completion.ok
       /\ Cardinality(DiffersEntries(completion.value.details))
            = Cardinality(DifferingAt)
       /\ \A n \in DifferingAt :
             completion.value.details[Cardinality({ i \in DifferingAt : i <= n })]
               = DiffersEntry(n)
       /\ \A i \in DOMAIN completion.value.details :
             completion.value.details[i] # TruncationNotice

ComparatorOf(ext) ==
    IF ext \in TextExtensions THEN <<"_compareTextFiles">>
    ELSE IF ext = JsonExtension THEN <<"_compareJsonFiles">>
    ELSE <<>>

\* C26: dispatch by extension: a call never invokes more than one comparator,
\* nor any before both checksums were computed; and for two readable files
\* with the same lower-cased extension and different bytes both checksums are
\* computed and the comparator invoked is the text comparator for .txt and
\* .csv in any letter case, the JSON comparator for .json, none otherwise.
C26_DispatchByExtension ==
    /\ Len(comparatorCalls) <= 1
    /\ comparatorCalls # <<>> => Len(digests) = 2
    /\ Done /\ BothReadable /\ SameExtension /\ ~SameBytes
         => /\ Len(digests) = 2
            /\ comparatorCalls = ComparatorOf(CommonExtension)

\* C29: status symmetry: when reconcileFiles(b, a) follows
\* reconcileFiles(a, b) on unchanged files, the two calls return the same
\* status.
C29_StatusSymmetry ==
    Swapped => result.outcome.status = Last.outcome.status

\* the positions of the log file at which an entry stands
PositionsOf(entry) == { n \in DOMAIN logFile : logFile[n] = entry }

\* C30: log ordering: when a call returns its terminal entry has been
\* written, and the entries of the call stand in the log file in the order
\* in which the call emitted them: an entry that is in the file is preceded
\* there by every entry emitted before it, unless that one went to the
\* console.
C30_LogInOrder ==
    /\ Done => emitted[Len(emitted)].entry \in AppendedEntries \cup FallbackEntries
    /\ \A i \in DOMAIN emitted, j \in DOMAIN emitted :
          i < j /\ emitted[j].entry \in AppendedEntries
          => \/ emitted[i].entry \in FallbackEntries
             \/ \E m \in PositionsOf(emitted[i].entry),
                   n \in PositionsOf(emitted[j].entry) : m < n

(***************************************************************************)
(* Properties of calls in progress at the same time.                       *)
(***************************************************************************)
\* C28: per-call isolation: a call that returns, whatever other calls on the
\* same instance were in progress during it and however their steps and the
\* log writes were interleaved with its own, returns an outcome it returns
\* when run alone on the same files with its own arguments.
C28_CallsAreIsolated ==
    \A id \in DOMAIN running :
        running[id].pc = "done"
        => running[id].result.outcome
             \in OutcomesOn(fs, running[id].args[1], running[id].args[2], verbose)

\* C28 witness: two calls with different arguments, each in progress during
\* the other, have both returned, with different statuses.
C28_Witness ==
    /\ \A id \in DOMAIN running : running[id].pc = "done" /\ running[id].overlapped
    /\ \E i \in DOMAIN running, j \in DOMAIN running :
          /\ running[i].args # running[j].args
          /\ running[i].result.outcome.status # running[j].result.outcome.status

(***************************************************************************)
(* Properties of reconcileAssets.                                          *)
(***************************************************************************)
\* the promise of reconcileAssets has settled / has resolved to a value
AssetsSettled == reconciliation.pc = "done"
AssetsReturned == AssetsSettled /\ reconciliation.settled = "returned"

\* the checks the call made all passed / one of them failed
EveryCheckPassed ==
    \A n \in DOMAIN reconciliation.checks : reconciliation.checks[n].passed
SomeCheckFailed ==
    \E n \in DOMAIN reconciliation.checks : ~reconciliation.checks[n].passed

\* the checks the configuration of a service calls for
ChecksCalledFor(c) ==
    { k \in {"apiKey", "primary", "status", "modelVersion"} :
        \/ k = "apiKey" /\ Truthy(c.apiKeyEnv)
        \/ k = "primary" /\ Truthy(c.endpoint)
        \/ k = "status" /\ Truthy(c.statusEndpoint) /\ c.statusEndpoint # c.endpoint
        \/ k = "modelVersion" /\ Truthy(c.modelVersionEnv) }

\* every check the configuration calls for was made, in every service
EveryServiceChecked ==
    \A n \in DOMAIN AI_SERVICE_CONFIGS :
        \A k \in ChecksCalledFor(AI_SERVICE_CONFIGS[n].v) :
            \E m \in DOMAIN reconciliation.checks :
                /\ reconciliation.checks[m].service = AI_SERVICE_CONFIGS[n].k
                /\ reconciliation.checks[m].check = k

\* the values stored for the checks that were not made
NotMade == {NotConfigured, SameAsPrimary}

\* the checks of a service recorded as not made
RecordedNotMade(n) ==
    { m \in DOMAIN reconciliation.value.details[n].v.v :
        reconciliation.value.details[n].v.v[m].v \in NotMade }

\* every format the configuration gives for a key is a regular expression
PatternsCompile ==
    \A n \in DOMAIN AI_SERVICE_CONFIGS :
        LET c == AI_SERVICE_CONFIGS[n].v IN
        Truthy(c.apiKeyEnv) /\ Truthy(c.apiKeyFormatRegex)
          => RegExpCompiles(The(c.apiKeyFormatRegex))

\* what the claim C31 says of a call that has settled
AllHealthyExact ==
    /\ (AssetsReturned /\ reconciliation.value.allHealthy)
         = (Len(AI_SERVICE_CONFIGS) >= 1 /\ EveryCheckPassed)
    /\ SomeCheckFailed
         => AssetsReturned /\ ~reconciliation.value.allHealthy /\ EveryServiceChecked
    /\ Len(AI_SERVICE_CONFIGS) = 0
         => AssetsReturned /\ ~reconciliation.value.allHealthy
              /\ reconciliation.checks = <<>>

\* C31: reconcileAssets returns allHealthy = true exactly when at least one
\* service is configured and every check that was made passed (the key, the
\* primary endpoint, a status endpoint distinct from the primary, the model
\* version); a check recorded as not made never makes it false, one failed
\* check makes it false while the remaining services are still checked, and
\* an empty configuration gives false without any check.
C31_AllHealthyExact == AssetsSettled => AllHealthyExact

\* the same on the configurations whose key formats are all regular
\* expressions
AllHealthyExactWhenPatternsCompile ==
    AssetsSettled /\ PatternsCompile => AllHealthyExact

\* a call that returned healthy although two checks of a service were
\* recorded as not made and another service was checked
HealthyWithChecksNotMade ==
    /\ AssetsReturned /\ reconciliation.value.allHealthy
    /\ Len(AI_SERVICE_CONFIGS) = 2
    /\ Cardinality(RecordedNotMade(1)) >= 2
    /\ Len(reconciliation.checks) >= 3

\* a call that returned unhealthy for a check of the first service, the
\* second service checked all the same
UnhealthyFirstService ==
    /\ AssetsReturned /\ ~reconciliation.value.allHealthy
    /\ Len(AI_SERVICE_CONFIGS) = 2
    /\ ~reconciliation.checks[1].passed
    /\ reconciliation.checks[1].service = AI_SERVICE_CONFIGS[1].k
    /\ \E m \in DOMAIN reconciliation.checks :
          reconciliation.checks[m].service = AI_SERVICE_CONFIGS[2].k

\* a call that did not return: it threw
AssetsThrew == AssetsSettled /\ reconciliation.settled = "thrown"

====
